---- MODULE Spec2Model ----
(***************************************************************************)
(* Model of the camera-movement detector:                                  *)
(*   movement_detector.py  detect_significant_movement, analyze_transformation *)
(*   app.py                create_movement_chart and its call in main      *)
(*                                                                         *)
(* Numbers.  Scores, thresholds and the entries of a homography are Python *)
(* floats, IEEE-754 binary64.  A float is modelled bit for bit, as a       *)
(* record [neg, m, e] of value (-1)^neg * m * 2^e with a 53-bit            *)
(* significand m (zero is m = <<>>, with either sign), and +, -, *, / and  *)
(* np.sqrt round their exact result to the nearest float, ties to even, as *)
(* the hardware does.  x**2 and np.arctan2 are functions of the C library  *)
(* (pow, atan2), which does not promise the nearest float: its last bit    *)
(* varies with the library and the processor.  They are modelled by the    *)
(* set of floats the library may return, the two floats that enclose the   *)
(* exact result (the result itself when it is a float), and what is        *)
(* computed from them is a set of possible values as well.                 *)
(* Significands are kept as sequences of 14-bit limbs, so that no product  *)
(* of two limbs exceeds 32 bits.                                           *)
(*                                                                         *)
(* The vision library (ORB, BFMatcher, findHomography) is outside the      *)
(* repository: extraction is a deterministic function of the image, the    *)
(* matcher returns any number of matches up to the smaller keypoint set    *)
(* (crossCheck), the estimator returns either no homography or a matrix    *)
(* with an inlier mask that has one entry per match.                       *)
(***************************************************************************)
EXTENDS Integers, Sequences, FiniteSets

VARIABLES frames, threshold, min_features,
          pc, idx,
          prev_gray, prev_keypoints, prev_descriptors,
          movement_frames, movement_scores, transformation_data,
          extract_log, match_log, estimate_log, pair_log,
          chart

vars == <<frames, threshold, min_features, pc, idx,
          prev_gray, prev_keypoints, prev_descriptors,
          movement_frames, movement_scores, transformation_data,
          extract_log, match_log, estimate_log, pair_log, chart>>

(***************************************************************************)
(* Bounds of the model                                                     *)
(***************************************************************************)
MaxFrames == 3

None == [none |-> TRUE]

RECURSIVE SumSeq(_)
SumSeq(s) == IF s = <<>> THEN 0 ELSE Head(s) + SumSeq(Tail(s))

(***************************************************************************)
(* Natural numbers of any size: sequences of limbs, least significant      *)
(* first, without leading zero limbs (0 is the empty sequence).  They      *)
(* carry the 53-bit significands of Python's floats and their products.    *)
(***************************************************************************)
LimbBits == 14
LimbBase == 2^LimbBits

Limb(a, i) == IF i >= 1 /\ i <= Len(a) THEN a[i] ELSE 0

\* a without its leading zero limbs
BNorm(a) ==
    IF \A i \in 1..Len(a) : a[i] = 0 THEN <<>>
    ELSE SubSeq(a, 1, CHOOSE i \in 1..Len(a) :
                          a[i] # 0 /\ \A j \in (i + 1)..Len(a) : a[j] = 0)

BFromInt(n) ==
    BNorm(<<n % LimbBase, (n \div LimbBase) % LimbBase, n \div (LimbBase * LimbBase)>>)

\* -1, 0 or 1 as a < b, a = b or a > b
BCmp(a, b) ==
    IF Len(a) < Len(b) THEN -1
    ELSE IF Len(a) > Len(b) THEN 1
    ELSE IF a = b THEN 0
    ELSE LET i == CHOOSE i \in 1..Len(a) :
                      a[i] # b[i] /\ \A j \in (i + 1)..Len(a) : a[j] = b[j]
         IN  IF a[i] < b[i] THEN -1 ELSE 1

BShlLimbs(a, n) == IF a = <<>> THEN <<>> ELSE [j \in 1..n |-> 0] \o a

\* a \div 2^s for s < LimbBits
BShrBits(a, s) ==
    BNorm([i \in 1..Len(a) |->
              a[i] \div 2^s + (Limb(a, i + 1) % 2^s) * 2^(LimbBits - s)])

IntBitLen(n) == CHOOSE k \in 0..(2 * LimbBits + 2) : 2^k > n /\ (k = 0 \/ 2^(k - 1) <= n)

BBitLen(a) == IF a = <<>> THEN 0 ELSE LimbBits * (Len(a) - 1) + IntBitLen(a[Len(a)])

\* bit number pos (from 0) of a
BBit(a, pos) == (Limb(a, pos \div LimbBits + 1) \div 2^(pos % LimbBits)) % 2

\* does a have a one below bit number s
BLowNonZero(a, s) ==
    \/ \E i \in 1..(s \div LimbBits) : Limb(a, i) # 0
    \/ Limb(a, s \div LimbBits + 1) % 2^(s % LimbBits) # 0

(***************************************************************************)
(* IEEE-754 binary64, the arithmetic of Python's float and np.float64.     *)
(* A float is [neg, m, e] with value (-1)^neg * m * 2^e where m has        *)
(* exactly 53 bits, or is zero (m = <<>>, e = 0; 0.0 and -0.0).  The       *)
(* arithmetic operations round the exact result to the nearest float, ties *)
(* to even.  Infinities, NaN and subnormals do not occur for the           *)
(* magnitudes handled here.                                                *)
(***************************************************************************)
Precision == 53
\* 0.0, or -0.0 when neg
SignedZero(neg) == [neg |-> neg, m |-> <<>>, e |-> 0]
FZero == SignedZero(FALSE)

FNeg(x) == [x EXCEPT !.neg = ~x.neg]
FAbs(x) == [x EXCEPT !.neg = FALSE]

\* -1, 0, 1 comparing the magnitudes
MagCmp(x, y) ==
    IF x.m = <<>> THEN (IF y.m = <<>> THEN 0 ELSE -1)
    ELSE IF y.m = <<>> THEN 1
    ELSE IF x.e < y.e THEN -1
    ELSE IF x.e > y.e THEN 1
    ELSE BCmp(x.m, y.m)

\* x < y; -0.0 and 0.0 are equal
FLt(x, y) ==
    IF x.m = <<>> /\ y.m = <<>> THEN FALSE
    ELSE IF x.neg
    THEN (IF y.neg THEN MagCmp(x, y) > 0 ELSE TRUE)
    ELSE (IF y.neg THEN FALSE ELSE MagCmp(x, y) < 0)

\* Python's min(x, y): y only when it is smaller
FMin(x, y) == IF FLt(y, x) THEN y ELSE x

\* np.arctan2 and np.pi are computed in fixed point, well beyond a float's
\* 53 bits: with FixBits binary places, and with more for a small angle
FixBits == 6 * LimbBits

(***************************************************************************)
(* The operations that build on one another are the instructions of one    *)
(* recursive operator, Compute: an operation applied to operands is        *)
(* Compute of the tuple of its name and its operands, and reading the      *)
(* name fixes the operands' values before the operation starts, as a call  *)
(* in Python does.                                                         *)
(***************************************************************************)
RECURSIVE Compute(_)

\* a + b
BAdd(a, b) == Compute(<<"BAdd", a, b>>)
\* a - b for a >= b
BSub(a, b) == Compute(<<"BSub", a, b>>)
\* a * k for 0 <= k < LimbBase
BMulSmall(a, k) == Compute(<<"BMulSmall", a, k>>)
\* a * 2^s
BShl(a, s) == Compute(<<"BShl", a, s>>)
\* a \div 2^s
BShr(a, s) == Compute(<<"BShr", a, s>>)
\* a times the limbs lo..hi of b, each in its place
BMulRange(a, b, lo, hi) == Compute(<<"BMulRange", a, b, lo, hi>>)
\* a * b
BMul(a, b) == Compute(<<"BMul", a, b>>)
\* one step of the long division of a by b: limb i of a joins the remainder
\* of the limbs above it, and its quotient limb their quotient
BDivModLimb(a, b, i, above) == Compute(<<"BDivModLimb", a, b, i, above>>)
\* the steps for the limbs hi, hi - 1, ... lo of a
BDivModRange(a, b, lo, hi, above) == Compute(<<"BDivModRange", a, b, lo, hi, above>>)
\* quotient of a by b > 0, and the remainder times a power of two
BDivMod(a, b) == Compute(<<"BDivMod", a, b>>)
\* Newton's iteration for the square root of a: the step from x, and the
\* steps from x above the root until they stop falling
BSqrtStep(a, x) == Compute(<<"BSqrtStep", a, x>>)
BSqrtFrom(a, x) == Compute(<<"BSqrtFrom", a, x>>)
\* the integer square root of a and what is left over
BSqrt(a) == Compute(<<"BSqrt", a>>)
\* the float nearest to n * 2^e, or to slightly more than that when sticky
\* (n then has more than Precision + 1 bits)
Round(neg, n, e, sticky) == Compute(<<"Round", neg, n, e, sticky>>)
\* the floats that enclose n * 2^e, or slightly more than that when more:
\* the greatest float at most it and the least float at least it
Enclosing(neg, n, e, more) == Compute(<<"Enclosing", neg, n, e, more>>)
\* the float of an integer, as float(n)
FromInt(n) == Compute(<<"FromInt", n>>)
\* the float of the decimal literal n / d
FromRatio(n, d) == Compute(<<"FromRatio", n, d>>)
\* x * y
FMul(x, y) == Compute(<<"FMul", x, y>>)
\* x + y
FAdd(x, y) == Compute(<<"FAdd", x, y>>)
\* x - y
FSub(x, y) == Compute(<<"FAdd", x, FNeg(y)>>)
\* x / y for y # 0
FDiv(x, y) == Compute(<<"FDiv", x, y>>)
\* np.sqrt(x) for x >= 0
FSqrt(x) == Compute(<<"FSqrt", x>>)
\* x**2: the floats pow(x, 2.0) may return
FPow2(x) == Compute(<<"FPow2", x>>)
\* fixed point with a number of binary places: 1, a * b, a / b, the square
\* root of a
XOne(places) == BShl(<<1>>, places)
XMul(a, b, places) == Compute(<<"XMul", a, b, places>>)
XDiv(a, b, places) == Compute(<<"XDiv", a, b, places>>)
XSqrt(a, places) == Compute(<<"XSqrt", a, places>>)
\* tan(x / 2) from t = tan(x)
XHalfAngle(t, places) == Compute(<<"XHalfAngle", t, places>>)
\* the terms t^(2k+1) / (2k+1) of arctan's series for k = lo..hi, added to
\* the sums of the terms before them
XArcTanTerms(lo, hi, sums, square, places) ==
    Compute(<<"XArcTanTerms", lo, hi, sums, square, places>>)
\* t - t^3/3 + t^5/5 - ... for t <= 1/16
XArcTanSeries(t, places) == Compute(<<"XArcTanSeries", t, places>>)
\* arctan(t) for 0 <= t <= 1, times 2^doublings
XArcTan(t, doublings, places) == Compute(<<"XArcTan", t, doublings, places>>)
\* pi with FixBits places: four times arctan(1)
XPi == BShl(XArcTan(XOne(FixBits), 0, FixBits), 2)
\* np.pi
Pi == Round(FALSE, XPi, -FixBits, TRUE)
\* |y| / |x| in fixed point, for x # 0
XRatio(y, x, places) == Compute(<<"XRatio", y, x, places>>)
\* np.arctan2(y, x): the floats atan2(y, x) may return
FArcTan2(y, x) == Compute(<<"FArcTan2", y, x>>)

(***************************************************************************)
(* analyze_transformation, lines 95-111: the three components of the       *)
(* motion and their weighted sum                                           *)
(***************************************************************************)
\* the float literals of the source
Zero == FZero
One == FromInt(1)
Hundred == FromInt(100)
\* return 100.0, and the scores 100.0 of the branches without a homography
FullScore == FromInt(100)
\* translation_magnitude / 8.0
TranslationSaturation == FromInt(8)
\* np.pi/18
RotationSaturation == FDiv(Pi, FromInt(18))
\* abs(scale_factor - 1.0) / 0.08
ScaleSaturation == FromRatio(8, 100)
TranslationWeight == FromRatio(6, 10)
RotationWeight == FromRatio(25, 100)
ScaleWeight == FromRatio(15, 100)
\* num_matches < 15
SparseMatches == 15
\* movement_score *= 1.1
SparseCorrection == FromRatio(11, 10)
\* num_inliers / num_matches < 0.4
LowInlierRatio == FromRatio(4, 10)
\* movement_score *= 1.05
ConsensusCorrection == FromRatio(105, 100)

\* np.sqrt(tx**2 + ty**2): its possible values
translation_magnitude(H) ==
    {FSqrt(FAdd(tx2, ty2)) : tx2 \in FPow2(H.tx), ty2 \in FPow2(H.ty)}

\* np.arctan2(b, a): its possible values
rotation_angle(H) == FArcTan2(H.b, H.a)

\* np.sqrt(a**2 + c**2): its possible values
scale_factor(H) ==
    {FSqrt(FAdd(a2, c2)) : a2 \in FPow2(H.a), c2 \in FPow2(H.c)}

normalized_translation(translation) == FMin(FDiv(translation, TranslationSaturation), One)
normalized_rotation(rotation) == FMin(FDiv(FAbs(rotation), RotationSaturation), One)
normalized_scale(scale) == FMin(FDiv(FAbs(FSub(scale, One)), ScaleSaturation), One)

\* 0.6 * nt * 100 + 0.25 * nr * 100 + 0.15 * ns * 100, from left to right
WeightedScore(nt, nr, ns) ==
    FAdd(FAdd(FMul(FMul(TranslationWeight, nt), Hundred),
              FMul(FMul(RotationWeight, nr), Hundred)),
         FMul(FMul(ScaleWeight, ns), Hundred))

\* lines 95-111: the possible values of movement_score before the
\* corrections
UncorrectedScore(H) == Compute(<<"UncorrectedScore", H>>)

Compute(call) ==
    CASE call[1] = "BAdd" ->
            \* limb i receives a carry when a lower limb overflowed and
            \* every limb between was full
            LET a == call[2]  b == call[3]
                n == IF Len(a) > Len(b) THEN Len(a) + 1 ELSE Len(b) + 1
                t == [i \in 1..n |-> Limb(a, i) + Limb(b, i)]
                carry == [i \in 1..n |->
                            IF \E j \in 1..(i - 1) :
                                   t[j] >= LimbBase /\ \A k \in (j + 1)..(i - 1) : t[k] = LimbBase - 1
                            THEN 1 ELSE 0]
            IN  IF Len(a) = 0 THEN b ELSE IF Len(b) = 0 THEN a
                ELSE BNorm([i \in 1..n |-> (t[i] + carry[i]) % LimbBase])
      [] call[1] = "BSub" ->
            \* limb i lends when a lower limb fell short and every limb
            \* between was level
            LET a == call[2]  b == call[3]
                t == [i \in 1..Len(a) |-> a[i] - Limb(b, i)]
                borrow == [i \in 1..Len(a) |->
                             IF \E j \in 1..(i - 1) :
                                    t[j] < 0 /\ \A k \in (j + 1)..(i - 1) : t[k] = 0
                             THEN 1 ELSE 0]
            IN  IF Len(b) = 0 THEN a
                ELSE BNorm([i \in 1..Len(a) |-> (t[i] - borrow[i] + LimbBase) % LimbBase])
      [] call[1] = "BMulSmall" ->
            \* the low halves of the limb products plus their high halves
            \* one limb up
            LET a == call[2]  k == call[3]
            IN  IF Len(a) = 0 \/ k = 0 THEN <<>>
                ELSE BAdd(BNorm([i \in 1..Len(a) |-> (a[i] * k) % LimbBase]),
                          BNorm([i \in 1..(Len(a) + 1) |-> (Limb(a, i - 1) * k) \div LimbBase]))
      [] call[1] = "BShl" ->
            LET a == call[2]  s == call[3]
            IN  BShlLimbs(BMulSmall(a, 2^(s % LimbBits)), s \div LimbBits)
      [] call[1] = "BShr" ->
            LET a == call[2]  s == call[3]
            IN  IF s \div LimbBits >= Len(a) THEN <<>>
                ELSE BShrBits(SubSeq(a, s \div LimbBits + 1, Len(a)), s % LimbBits)
      [] call[1] = "XMul" -> BShr(BMul(call[2], call[3]), call[4])
      [] call[1] = "XDiv" -> BDivMod(BShl(call[2], call[4]), call[3]).q
      [] call[1] = "XSqrt" -> BSqrt(BShl(call[2], call[3])).root
      [] call[1] = "BMulRange" ->
            LET a == call[2]  b == call[3]  lo == call[4]  hi == call[5]
            IN  IF lo = hi THEN BShlLimbs(BMulSmall(a, b[lo]), lo - 1)
                ELSE BAdd(BMulRange(a, b, lo, (lo + hi) \div 2),
                          BMulRange(a, b, (lo + hi) \div 2 + 1, hi))
      [] call[1] = "BMul" ->
            LET a == call[2]  b == call[3]
            IN  IF a = <<>> \/ b = <<>> THEN <<>> ELSE BMulRange(a, b, 1, Len(b))
      [] call[1] = "BDivModLimb" ->
            \* b's top limb has its top bit set: the quotient's limb is the
            \* guess from the remainder's two top limbs or up to two less
            LET a == call[2]  b == call[3]  i == call[4]  above == call[5]
                r == BNorm(<<a[i]>> \o above.rem)
                top == Limb(r, Len(b) + 1) * LimbBase + Limb(r, Len(b))
                guess == IF top \div b[Len(b)] >= LimbBase THEN LimbBase - 1
                         ELSE top \div b[Len(b)]
                Fits(q) == BCmp(BMulSmall(b, q), r) <= 0
                digit == IF Fits(guess) THEN guess
                         ELSE IF Fits(guess - 1) THEN guess - 1
                         ELSE guess - 2
            IN  [q |-> <<digit>> \o above.q, rem |-> BSub(r, BMulSmall(b, digit))]
      [] call[1] = "BDivModRange" ->
            \* the upper half first, its result carried into the lower
            LET a == call[2]  b == call[3]  lo == call[4]  hi == call[5]  above == call[6]
            IN  IF lo = hi THEN BDivModLimb(a, b, lo, above)
                ELSE BDivModRange(a, b, lo, (lo + hi) \div 2,
                                  BDivModRange(a, b, (lo + hi) \div 2 + 1, hi, above))
      [] call[1] = "BDivMod" ->
            LET a == call[2]  b == call[3]
                s == LimbBits - IntBitLen(b[Len(b)])
                an == BMulSmall(a, 2^s)
                r == BDivModRange(an, BMulSmall(b, 2^s), 1, Len(an), [q |-> <<>>, rem |-> <<>>])
            IN  IF Len(a) = 0 \/ Len(b) = 0 THEN [q |-> <<>>, rem |-> <<>>]
                ELSE [q |-> BNorm(r.q), rem |-> r.rem]
      [] call[1] = "BSqrtStep" ->
            \* (x + a \div x) \div 2, which is below x when a \div x is
            LET a == call[2]  x == call[3]
                q == BDivMod(a, x).q
            IN  IF BCmp(q, x) >= 0 THEN x ELSE BShrBits(BAdd(x, q), 1)
      [] call[1] = "BSqrtFrom" ->
            LET a == call[2]  x == call[3]
                x1 == BSqrtStep(a, x)
                x2 == BSqrtStep(a, x1)
                x3 == BSqrtStep(a, x2)
                x4 == BSqrtStep(a, x3)
            IN  CASE x1 = x -> x
                  [] x2 = x1 -> x1
                  [] x3 = x2 -> x2
                  [] x4 = x3 -> x3
                  [] OTHER -> BSqrtFrom(a, x4)
      [] call[1] = "BSqrt" ->
            \* the iteration starts from the root of the two top limbs
            LET a == call[2]
                half == (Len(a) - 1) \div 2
                top == Limb(a, 2 * half + 2) * LimbBase + a[2 * half + 1]
                r == CHOOSE r \in 0..(LimbBase - 1) : r * r <= top /\ top < (r + 1) * (r + 1)
                root == BSqrtFrom(a, BShlLimbs(BFromInt(r + 1), half))
            IN  IF Len(a) = 0 THEN [root |-> <<>>, rem |-> <<>>]
                ELSE [root |-> root, rem |-> BSub(a, BMul(root, root))]
      [] call[1] = "Round" ->
            LET neg == call[2]  n == call[3]  e == call[4]  sticky == call[5]
                len == BBitLen(n)
                sh == len - Precision
                q == BShr(n, sh)
                up == /\ BBit(n, sh - 1) = 1
                      /\ (sticky \/ BLowNonZero(n, sh - 1) \/ BBit(q, 0) = 1)
                q1 == IF up THEN BAdd(q, <<1>>) ELSE q
            IN  IF len = 0 THEN FZero
                ELSE IF len <= Precision
                THEN [neg |-> neg, m |-> BShl(n, Precision - len), e |-> e - (Precision - len)]
                ELSE IF BBitLen(q1) > Precision
                THEN [neg |-> neg, m |-> BShr(q1, 1), e |-> e + sh + 1]
                ELSE [neg |-> neg, m |-> q1, e |-> e + sh]
      [] call[1] = "Enclosing" ->
            \* the 53 leading bits of n, and one more in the last place
            \* unless nothing was cut off
            LET neg == call[2]  n == call[3]  e == call[4]  more == call[5]
                len == BBitLen(n)
                pad == IF len < Precision THEN Precision - len ELSE 0
                np == IF pad = 0 THEN n ELSE BShl(n, pad)
                sh == len + pad - Precision
                below == BShr(np, sh)
                above == BAdd(below, <<1>>)
            IN  IF len = 0 THEN {SignedZero(neg)}
                ELSE IF ~more /\ ~BLowNonZero(np, sh)
                THEN {[neg |-> neg, m |-> below, e |-> e - pad + sh]}
                ELSE {[neg |-> neg, m |-> below, e |-> e - pad + sh],
                      IF BBitLen(above) > Precision
                      THEN [neg |-> neg, m |-> BShr(above, 1), e |-> e - pad + sh + 1]
                      ELSE [neg |-> neg, m |-> above, e |-> e - pad + sh]}
      [] call[1] = "FPow2" ->
            \* pow(+-0, 2.0) is 0.0
            LET x == call[2]
            IN  IF x.m = <<>> THEN {FZero}
                ELSE Enclosing(FALSE, BMul(x.m, x.m), 2 * x.e, FALSE)
      [] call[1] = "FromInt" ->
            LET n == call[2]
            IN  Round(n < 0, BFromInt(IF n < 0 THEN -n ELSE n), 0, FALSE)
      [] call[1] = "FromRatio" ->
            LET n == call[2]  d == call[3]
                places == 80 + BBitLen(BFromInt(d))
                qr == BDivMod(BShl(BFromInt(IF n < 0 THEN -n ELSE n), places), BFromInt(d))
            IN  Round(n < 0, qr.q, -places, qr.rem # <<>>)
      [] call[1] = "FMul" ->
            LET x == call[2]  y == call[3]
            IN  IF x.m = <<>> \/ y.m = <<>> THEN SignedZero(x.neg # y.neg)
                ELSE Round(x.neg # y.neg, BMul(x.m, y.m), x.e + y.e, FALSE)
      [] call[1] = "FAdd" ->
            LET x == call[2]  y == call[3]
                e0 == IF x.e < y.e THEN x.e ELSE y.e
                a == BShl(x.m, x.e - e0)
                b == BShl(y.m, y.e - e0)
                sum == IF x.neg = y.neg THEN [neg |-> x.neg, n |-> BAdd(a, b)]
                       ELSE IF BCmp(a, b) >= 0 THEN [neg |-> x.neg, n |-> BSub(a, b)]
                       ELSE [neg |-> y.neg, n |-> BSub(b, a)]
            IN  IF x.m = <<>> /\ y.m = <<>> THEN SignedZero(x.neg /\ y.neg)
                ELSE IF x.m = <<>> THEN y
                ELSE IF y.m = <<>> THEN x
                ELSE Round(sum.neg, sum.n, e0, FALSE)
      [] call[1] = "FDiv" ->
            LET x == call[2]  y == call[3]
                qr == BDivMod(BShl(x.m, 64), y.m)
            IN  IF x.m = <<>> THEN SignedZero(x.neg # y.neg)
                ELSE Round(x.neg # y.neg, qr.q, x.e - y.e - 64, qr.rem # <<>>)
      [] call[1] = "FSqrt" ->
            LET x == call[2]
                k == IF x.e % 2 = 0 THEN 60 ELSE 61
                sr == BSqrt(BShl(x.m, k))
            IN  IF x.m = <<>> THEN x
                ELSE Round(FALSE, sr.root, (x.e - k) \div 2, sr.rem # <<>>)
      [] call[1] = "XHalfAngle" ->
            LET t == call[2]  places == call[3]
                secant == XSqrt(BAdd(XOne(places), XMul(t, t, places)), places)
            IN  XDiv(t, BAdd(XOne(places), secant), places)
      [] call[1] = "XArcTanTerms" ->
            \* the even terms are added up in pos and the odd ones in neg;
            \* power is t^(2 lo + 1) on entry and is handed on from the
            \* first half of the range to the second
            LET lo == call[2]  hi == call[3]  sums == call[4]  square == call[5]
                places == call[6]
                term == BDivMod(sums.power, <<2 * lo + 1>>).q
            IN  IF lo = hi
                THEN [pos |-> IF lo % 2 = 0 THEN BAdd(sums.pos, term) ELSE sums.pos,
                      neg |-> IF lo % 2 = 0 THEN sums.neg ELSE BAdd(sums.neg, term),
                      power |-> XMul(sums.power, square, places)]
                ELSE XArcTanTerms((lo + hi) \div 2 + 1, hi,
                                  XArcTanTerms(lo, (lo + hi) \div 2, sums, square, places),
                                  square, places)
      [] call[1] = "XArcTanSeries" ->
            \* every term adds eight bits
            LET t == call[2]  places == call[3]
                sums == XArcTanTerms(0, places \div 8,
                                     [pos |-> <<>>, neg |-> <<>>, power |-> t],
                                     XMul(t, t, places), places)
            IN  BSub(sums.pos, sums.neg)
      [] call[1] = "XArcTan" ->
            \* the angle is halved until its tangent is below 1/16, and
            \* the series' sum doubled as often
            LET t == call[2]  doublings == call[3]  places == call[4]
                t1 == XHalfAngle(t, places)
                t2 == XHalfAngle(t1, places)
                t3 == XHalfAngle(t2, places)
                Small(u) == u = <<>> \/ BCmp(BShl(u, 4), XOne(places)) <= 0
            IN  IF Small(t) THEN BShl(XArcTanSeries(t, places), doublings)
                ELSE IF Small(t1) THEN BShl(XArcTanSeries(t1, places), doublings + 1)
                ELSE IF Small(t2) THEN BShl(XArcTanSeries(t2, places), doublings + 2)
                ELSE XArcTan(t3, doublings + 3, places)
      [] call[1] = "XRatio" ->
            LET y == call[2]  x == call[3]  places == call[4]
                s == y.e - x.e + places
            IN  IF s >= 0 THEN BDivMod(BShl(y.m, s), x.m).q
                ELSE BDivMod(y.m, BShl(x.m, -s)).q
      [] call[1] = "FArcTan2" ->
            \* On an axis atan2 returns 0, pi/2 or pi with the sign of y.
            \* Off the axes the angle is arctan(|y| / |x|) for |y| <= |x|
            \* and pi/2 - arctan(|x| / |y|) otherwise, taken from pi for
            \* x < 0.  A small angle arctan(t) is t - t^3/3 + ..., so that
            \* it takes three times the places of t to tell it from t.
            LET y == call[2]  x == call[3]
                steep == MagCmp(y, x) > 0
                places == IF steep \/ x.neg THEN FixBits
                          ELSE FixBits + 3 * (x.e - y.e)
                acute == IF steep
                         THEN BSub(BShrBits(XPi, 1), XArcTan(XRatio(x, y, places), 0, places))
                         ELSE XArcTan(XRatio(y, x, places), 0, places)
                angle == IF x.neg THEN BSub(XPi, acute) ELSE acute
            IN  IF y.m = <<>>
                THEN {IF x.neg THEN [Pi EXCEPT !.neg = y.neg] ELSE SignedZero(y.neg)}
                ELSE IF x.m = <<>>
                THEN {[Pi EXCEPT !.neg = y.neg, !.e = Pi.e - 1]}
                ELSE Enclosing(y.neg, angle, -places, TRUE)
      [] call[1] = "UncorrectedScore" ->
            LET H == call[2]
            IN  {WeightedScore(normalized_translation(translation),
                               normalized_rotation(rotation),
                               normalized_scale(scale)) :
                    translation \in translation_magnitude(H),
                    rotation \in rotation_angle(H),
                    scale \in scale_factor(H)}

(***************************************************************************)
(* analyze_transformation: the matrices of the model and the corrections   *)
(***************************************************************************)
\* a 3x3 matrix of floats by its entries H[0,0], H[0,1], H[1,0], H[1,1],
\* H[0,2], H[1,2], given in thousandths
Thousandths(entries) == [k \in DOMAIN entries |-> FromRatio(entries[k], 1000)]
Homography(a, b, c, d, tx, ty) ==
    Thousandths([a |-> a, b |-> b, c |-> c, d |-> d, tx |-> tx, ty |-> ty])

\* matrices the estimator may return: the identity, a shift of 6.4 pixels, a
\* small shift with a rotation of 5 degrees, and a large motion that
\* saturates all three components
Homographies ==
    { Homography(h[1], h[2], h[3], h[4], h[5], h[6]) :
        h \in { <<1000, 0, 0, 1000, 0, 0>>,
                <<1000, 0, 0, 1000, 3840, 5120>>,
                <<996, -87, 87, 996, 600, -800>>,
                <<1100, 1100, -1100, 1100, 6000, 8000>> } }

\* the possible values of movement_score before the corrections for the
\* matrices of the model, computed once
UncorrectedScores == [h \in Homographies |-> UncorrectedScore(h)]
MovementScore(H) == IF H \in Homographies THEN UncorrectedScores[H] ELSE UncorrectedScore(H)

\* the third argument of the call: len(matches) * np.sum(mask) / len(mask)
InlierEstimate(nmatches, mask) == FDiv(FromInt(nmatches * SumSeq(mask)), FromInt(Len(mask)))

\* num_inliers / num_matches < 0.4
LowConsensus(num_matches, num_inliers) ==
    FLt(FDiv(num_inliers, FromInt(num_matches)), LowInlierRatio)

\* if condition: movement_score *= factor
Scaled(movement_score, condition, factor) ==
    IF condition THEN FMul(movement_score, factor) ELSE movement_score

\* variant: num_matches <= 15 in place of num_matches < 15
analyze_transformation_AtMost(H, num_matches, num_inliers) ==
    IF H = None THEN {FullScore}
    ELSE {Scaled(Scaled(movement_score, num_matches <= SparseMatches, SparseCorrection),
                 LowConsensus(num_matches, num_inliers), ConsensusCorrection) :
             movement_score \in MovementScore(H)}

\* the values the call may return
analyze_transformation(H, num_matches, num_inliers) ==
    IF H = None THEN {FullScore}
    ELSE {Scaled(Scaled(movement_score, num_matches < SparseMatches, SparseCorrection),
                 LowConsensus(num_matches, num_inliers), ConsensusCorrection) :
             movement_score \in MovementScore(H)}

(***************************************************************************)
(* Inputs                                                                  *)
(***************************************************************************)
\* A frame is an RGB image, identified here by its amount of texture: the
\* number of corners ORB finds in it.
SmallTextures == {0, 5, 6}
RichTextures == {15, 16}
Frame(t) == [rgb |-> t]

RECURSIVE SeqsUpTo(_, _)
SeqsUpTo(S, n) ==
    IF n = 0 THEN {<<>>}
    ELSE LET shorter == SeqsUpTo(S, n - 1)
         IN  shorter \cup {Append(q, Frame(t)) : q \in {r \in shorter : Len(r) = n - 1}, t \in S}

\* every sequence of up to MaxFrames sparsely textured frames, and every
\* pair of richly textured ones
FrameSequences ==
    SeqsUpTo(SmallTextures, MaxFrames) \cup {<<Frame(t), Frame(u)>> : t, u \in RichTextures}

\* threshold: 50.0 (the app's default), 100.0 (the top of its slider) and
\* 115.5, the product of 100, 1.1 and 1.05
Thresholds == {FromRatio(tenths, 10) : tenths \in {500, 1000, 1155}}
MinFeatureChoices == {5, 15}

\* an inlier mask with one entry per match, the first k of them inliers
Mask(k, n) == [i \in 1..n |-> IF i <= k THEN 1 ELSE 0]

(***************************************************************************)
(* Vision-library primitives                                               *)
(***************************************************************************)
\* cv2.cvtColor(frame, COLOR_RGB2GRAY)
cvtColor(frame) == [lum |-> frame.rgb]

\* orb.detectAndCompute(gray, None): deterministic in the image; no
\* descriptors at all (None) when there are no keypoints
detectAndCompute(gray) ==
    [keypoints   |-> [of |-> gray.lum, len |-> gray.lum],
     descriptors |-> IF gray.lum = 0 THEN None
                     ELSE [of |-> gray.lum, rows |-> gray.lum]]

\* bf.match(prev_descriptors, descriptors) with crossCheck: the possible
\* numbers of matches
MatchCounts(prev_kp, kp) == 0..(IF prev_kp.len < kp.len THEN prev_kp.len ELSE kp.len)

\* cv2.findHomography(..., RANSAC, ransac_threshold): the possible results
EstimatorResults(nmatches) ==
    {[H |-> None, mask |-> <<>>]}
        \cup {[H |-> h, mask |-> Mask(k, nmatches)] : h \in Homographies, k \in 0..nmatches}

\* the largest number of keypoints, and so of matches, of a frame
MaxKeypoints ==
    CHOOSE most \in SmallTextures \cup RichTextures :
        \A t \in SmallTextures \cup RichTextures : t <= most

\* line 38 for every number of matches and every result of the estimator,
\* computed once
AnalyzerResults ==
    [nmatches \in 1..MaxKeypoints |->
        [est \in EstimatorResults(nmatches) |->
            analyze_transformation(est.H, nmatches, InlierEstimate(nmatches, est.mask))]]

(***************************************************************************)
(* detect_significant_movement                                             *)
(*                                                                         *)
(* Besides the function's own variables the model keeps four histories of  *)
(* what the run did: extract_log (the frame of every detectAndCompute      *)
(* call), match_log (every bf.match call and the number of matches it      *)
(* produced), estimate_log (every findHomography call and whether it found *)
(* a matrix) and pair_log (the features every transition read).            *)
(* ransac_threshold is only handed to findHomography, whose result is left *)
(* open here, so it is not a variable.                                     *)
(***************************************************************************)
Init ==
    /\ frames \in FrameSequences
    /\ threshold \in Thresholds
    /\ min_features \in MinFeatureChoices
    /\ pc = "loop"
    /\ idx = 0
    /\ prev_gray = None
    /\ prev_keypoints = None
    /\ prev_descriptors = None
    /\ movement_frames = <<>>
    /\ movement_scores = <<>>
    /\ transformation_data = <<>>
    /\ extract_log = <<>>
    /\ match_log = <<>>
    /\ estimate_log = <<>>
    /\ pair_log = <<>>
    /\ chart = [drawn |-> FALSE, y |-> <<>>, highlight_x |-> <<>>, highlight_y |-> <<>>]

\* the frame of this iteration (enumerate is 0-based, sequences are 1-based)
frame == frames[idx + 1]
gray == cvtColor(frame)

\* variant: the guard of line 23 left out
HasPrevious_Always(pg) == TRUE

\* line 23
HasPrevious(pg) == pg # None

\* variant: >= in place of > at lines 26-27
KeypointsSufficient_AtLeast(pk, pd, kp, mf) ==
    /\ pk # None
    /\ pd # None
    /\ kp.len >= mf
    /\ pk.len >= mf

\* lines 26-27
KeypointsSufficient(pk, pd, kp, mf) ==
    /\ pk # None
    /\ pd # None
    /\ kp.len > mf
    /\ pk.len > mf

\* variant: > in place of >= at line 32
MatchesSufficient_Strict(nmatches, mf) == nmatches > mf

\* line 32
MatchesSufficient(nmatches, mf) == nmatches >= mf

\* line 48
ExceedsThreshold(score, thr) == FLt(thr, score)

\* variant: the frame numbered from one
FailureRecord_OneBased(i, nmatches) ==
    [frame_idx |-> i + 1, homography |-> None, matches |-> nmatches,
     inliers |-> 0, score |-> FullScore]

\* the record appended in the three branches without a homography
FailureRecord(i, nmatches) ==
    [frame_idx |-> i, homography |-> None, matches |-> nmatches,
     inliers |-> 0, score |-> FullScore]

\* variant: the two counts stored under each other's key
NominalRecord_Swapped(i, H, nmatches, mask, score) ==
    [frame_idx |-> i, homography |-> H, matches |-> SumSeq(mask),
     inliers |-> nmatches, score |-> score]

\* the record appended on the nominal path
NominalRecord(i, H, nmatches, mask, score) ==
    [frame_idx |-> i, homography |-> H, matches |-> nmatches,
     inliers |-> SumSeq(mask), score |-> score]

\* variant: the retained state is set once and never refreshed
Retained_KeepOld(g, old) ==
    IF old.gray = None
    THEN [gray |-> g,
          keypoints |-> detectAndCompute(g).keypoints,
          descriptors |-> detectAndCompute(g).descriptors]
    ELSE old

\* lines 83-84: what is kept for the next iteration
Retained(g, old) ==
    [gray |-> g,
     keypoints |-> detectAndCompute(g).keypoints,
     descriptors |-> detectAndCompute(g).descriptors]

OldRetained == [gray |-> prev_gray, keypoints |-> prev_keypoints,
                descriptors |-> prev_descriptors]

\* end of every iteration: lines 83-84, then the next frame
EndIteration(extracts) ==
    /\ prev_gray' = Retained(gray, OldRetained).gray
    /\ prev_keypoints' = Retained(gray, OldRetained).keypoints
    /\ prev_descriptors' = Retained(gray, OldRetained).descriptors
    /\ extract_log' = extract_log \o extracts \o <<idx>>
    /\ idx' = idx + 1
    /\ UNCHANGED <<frames, threshold, min_features, pc, chart>>

InLoop == pc = "loop" /\ idx < Len(frames)

\* history: the features a transition read at lines 26-34
UsedFeatures(cur) ==
    [prev_keypoints |-> prev_keypoints, prev_descriptors |-> prev_descriptors,
     keypoints |-> cur.keypoints, descriptors |-> cur.descriptors]


\* frame 0: nothing to compare with
FirstFrame ==
    /\ InLoop
    /\ ~HasPrevious(prev_gray)
    /\ EndIteration(<<>>)
    /\ UNCHANGED <<movement_frames, movement_scores, transformation_data,
                   match_log, estimate_log, pair_log>>

\* lines 73-82
InsufficientKeypoints ==
    /\ InLoop
    /\ HasPrevious(prev_gray)
    /\ LET cur == detectAndCompute(gray)
       IN  /\ ~KeypointsSufficient(prev_keypoints, prev_descriptors, cur.keypoints, min_features)
           /\ movement_scores' = Append(movement_scores, FullScore)
           /\ movement_frames' = Append(movement_frames, idx)
           /\ transformation_data' = Append(transformation_data, FailureRecord(idx, 0))
           /\ pair_log' = Append(pair_log, UsedFeatures(cur))
    /\ EndIteration(<<idx>>)
    /\ UNCHANGED <<match_log, estimate_log>>

\* lines 62-71
InsufficientMatches ==
    /\ InLoop
    /\ HasPrevious(prev_gray)
    /\ LET cur == detectAndCompute(gray)
       IN  /\ KeypointsSufficient(prev_keypoints, prev_descriptors, cur.keypoints, min_features)
           /\ \E nmatches \in MatchCounts(prev_keypoints, cur.keypoints) :
                /\ ~MatchesSufficient(nmatches, min_features)
                /\ movement_scores' = Append(movement_scores, FullScore)
                /\ movement_frames' = Append(movement_frames, idx)
                /\ transformation_data' = Append(transformation_data, FailureRecord(idx, nmatches))
                /\ match_log' = Append(match_log, [frame_idx |-> idx, produced |-> nmatches])
           /\ pair_log' = Append(pair_log, UsedFeatures(cur))
    /\ EndIteration(<<idx>>)
    /\ UNCHANGED estimate_log

\* lines 51-60
EstimationFailure ==
    /\ InLoop
    /\ HasPrevious(prev_gray)
    /\ LET cur == detectAndCompute(gray)
       IN  /\ KeypointsSufficient(prev_keypoints, prev_descriptors, cur.keypoints, min_features)
           /\ \E nmatches \in MatchCounts(prev_keypoints, cur.keypoints) :
                /\ MatchesSufficient(nmatches, min_features)
                /\ \E est \in EstimatorResults(nmatches) :
                     /\ est.H = None
                     /\ movement_scores' = Append(movement_scores, FullScore)
                     /\ movement_frames' = Append(movement_frames, idx)
                     /\ transformation_data' = Append(transformation_data, FailureRecord(idx, nmatches))
                /\ match_log' = Append(match_log, [frame_idx |-> idx, produced |-> nmatches])
                /\ estimate_log' = Append(estimate_log, [frame_idx |-> idx, found |-> FALSE])
           /\ pair_log' = Append(pair_log, UsedFeatures(cur))
    /\ EndIteration(<<idx>>)

\* lines 37-49
NominalPath ==
    /\ InLoop
    /\ HasPrevious(prev_gray)
    /\ LET cur == detectAndCompute(gray)
       IN  /\ KeypointsSufficient(prev_keypoints, prev_descriptors, cur.keypoints, min_features)
           /\ \E nmatches \in MatchCounts(prev_keypoints, cur.keypoints) :
                /\ MatchesSufficient(nmatches, min_features)
                /\ \E est \in EstimatorResults(nmatches) :
                     /\ est.H # None
                     /\ \E movement_score \in AnalyzerResults[nmatches][est] :
                            /\ transformation_data' =
                                   Append(transformation_data,
                                          NominalRecord(idx, est.H, nmatches, est.mask, movement_score))
                            /\ movement_scores' = Append(movement_scores, movement_score)
                            /\ movement_frames' =
                                   IF ExceedsThreshold(movement_score, threshold)
                                   THEN Append(movement_frames, idx)
                                   ELSE movement_frames
                /\ match_log' = Append(match_log, [frame_idx |-> idx, produced |-> nmatches])
                /\ estimate_log' = Append(estimate_log, [frame_idx |-> idx, found |-> TRUE])
           /\ pair_log' = Append(pair_log, UsedFeatures(cur))
    /\ EndIteration(<<idx>>)

\* lines 86-90
Return ==
    /\ pc = "loop"
    /\ idx = Len(frames)
    /\ pc' = "returned"
    /\ UNCHANGED <<frames, threshold, min_features, idx,
                   prev_gray, prev_keypoints, prev_descriptors,
                   movement_frames, movement_scores, transformation_data,
                   extract_log, match_log, estimate_log, pair_log, chart>>

(***************************************************************************)
(* app.py: create_movement_chart, called by main on the returned lists     *)
(***************************************************************************)
\* movement_scores[i] if i < len(movement_scores) else 0   (0-based i)
HighlightScore(scores, i) == IF i < Len(scores) THEN scores[i + 1] ELSE Zero

create_movement_chart(scores, flagged) ==
    [drawn |-> TRUE,
     y |-> scores,
     highlight_x |-> flagged,
     highlight_y |-> [j \in 1..Len(flagged) |-> HighlightScore(scores, flagged[j])]]

\* main, line 213-215: the chart is drawn when there is more than one score
ShowChart ==
    /\ pc = "returned"
    /\ Len(movement_scores) > 1
    /\ chart' = create_movement_chart(movement_scores, movement_frames)
    /\ pc' = "charted"
    /\ UNCHANGED <<frames, threshold, min_features, idx,
                   prev_gray, prev_keypoints, prev_descriptors,
                   movement_frames, movement_scores, transformation_data,
                   extract_log, match_log, estimate_log, pair_log>>

Next ==
    \/ FirstFrame
    \/ InsufficientKeypoints
    \/ InsufficientMatches
    \/ EstimationFailure
    \/ NominalPath
    \/ Return
    \/ ShowChart

Spec == Init /\ [][Next]_vars

(***************************************************************************)
(* Properties                                                              *)
(***************************************************************************)
Range(q) == {q[j] : j \in 1..Len(q)}
Returned == pc # "loop"

\* the features of the frame with 0-based index i
FeaturesOf(i) == detectAndCompute(cvtColor(frames[i + 1]))
KeypointCount(i) == FeaturesOf(i).keypoints.len

\* the transitions recorded so far; transition k ends at frame k
Transitions == 1..Len(transformation_data)

MatcherRanAt(k) == \E j \in 1..Len(match_log) : match_log[j].frame_idx = k
EstimatedAt(k) == \E j \in 1..Len(estimate_log) : estimate_log[j].frame_idx = k
EstimateFailedAt(k) ==
    \E j \in 1..Len(estimate_log) :
        estimate_log[j].frame_idx = k /\ ~estimate_log[j].found

\* C1: after detect_significant_movement returns, frame i is in
\* movement_frames if and only if the score of the transition ending at
\* frame i is strictly greater than threshold, for every threshold.
C1_FlaggedIffAboveThreshold ==
    Returned =>
        \A i \in 1..Len(movement_scores) :
            (i \in Range(movement_frames)) <=> FLt(threshold, movement_scores[i])

\* C2: for N frames there is exactly one score and one record for each of
\* the frames 1..N-1 and none for frame 0: both lists have length N-1 when
\* N >= 1, and scores, flagged list and records are empty when N <= 1.
C2_OneResultPerTransition ==
    Returned =>
        LET N == Len(frames)
        IN  /\ N >= 1 => /\ Len(movement_scores) = N - 1
                         /\ Len(transformation_data) = N - 1
            /\ N <= 1 => /\ movement_scores = <<>>
                         /\ movement_frames = <<>>
                         /\ transformation_data = <<>>
            /\ \A i \in 0..(N - 1) :
                 Cardinality({k \in Transitions : transformation_data[k].frame_idx = i})
                     = (IF i = 0 THEN 0 ELSE 1)

C2_Witness ==
    /\ pc = "returned"
    /\ Len(frames) = 3
    /\ Len(movement_scores) = 2
    /\ transformation_data[1].homography # None
    /\ transformation_data[2].homography = None

\* C3: at every point of the run the score list and the record list are
\* aligned to frame order: the k-th record has frame_idx k, its score is
\* the k-th score, and it was computed for the transition ending at frame k.
C3_IndexAligned ==
    /\ Len(movement_scores) = Len(transformation_data)
    /\ Len(pair_log) = Len(transformation_data)
    /\ \A k \in Transitions :
         /\ transformation_data[k].frame_idx = k
         /\ transformation_data[k].score = movement_scores[k]
         /\ pair_log[k].keypoints = FeaturesOf(k).keypoints

C3_Witness ==
    /\ Len(transformation_data) = 2
    /\ transformation_data[1].homography = None
    /\ transformation_data[2].homography # None
    /\ movement_scores[1] # movement_scores[2]

\* C4: every record has inliers <= matches, and a record without a
\* homography has inliers = 0.
C4_InliersBounded ==
    \A k \in Transitions :
        /\ transformation_data[k].inliers <= transformation_data[k].matches
        /\ transformation_data[k].homography = None => transformation_data[k].inliers = 0

C4_Witness ==
    /\ \E k \in Transitions :
         /\ transformation_data[k].homography # None
         /\ transformation_data[k].inliers > 0
         /\ transformation_data[k].inliers < transformation_data[k].matches
    /\ \E k \in Transitions :
         /\ transformation_data[k].homography = None
         /\ transformation_data[k].matches > 0

\* C5: when the keypoint set of the previous or of the current frame has at
\* most min_features elements, the matcher is not invoked, the record is
\* exactly matches 0, inliers 0, score 100.0, no homography, and the frame is
\* flagged; so when no frame has more than min_features keypoints every
\* score is 100.0.
C5_InsufficientKeypoints ==
    /\ \A k \in Transitions :
         (KeypointCount(k - 1) <= min_features \/ KeypointCount(k) <= min_features) =>
             /\ ~MatcherRanAt(k)
             /\ transformation_data[k] =
                    [frame_idx |-> k, homography |-> None, matches |-> 0,
                     inliers |-> 0, score |-> FullScore]
             /\ k \in Range(movement_frames)
    /\ (\A i \in 0..(Len(frames) - 1) : KeypointCount(i) <= min_features) =>
           \A k \in 1..Len(movement_scores) : movement_scores[k] = FullScore

C5_Witness ==
    \E k \in Transitions :
        /\ KeypointCount(k - 1) > min_features
        /\ KeypointCount(k) = min_features

\* C6: when the matcher ran, estimation is attempted if and only if it
\* produced at least min_features matches; and when it produced fewer, or
\* estimation returned nothing, the record is matches = the number produced,
\* inliers 0, score 100.0, no homography, and the frame is flagged.
C6_InsufficientMatchesOrEstimate ==
    /\ \A j \in 1..Len(match_log) :
         LET k == match_log[j].frame_idx
             n == match_log[j].produced
         IN  /\ EstimatedAt(k) <=> n >= min_features
             /\ (n < min_features \/ EstimateFailedAt(k)) =>
                    /\ k \in Transitions
                    /\ transformation_data[k] =
                           [frame_idx |-> k, homography |-> None, matches |-> n,
                            inliers |-> 0, score |-> FullScore]
                    /\ k \in Range(movement_frames)
    /\ \A k \in Transitions : EstimatedAt(k) => MatcherRanAt(k)

C6_Witness ==
    /\ \E j \in 1..Len(match_log) :
         /\ match_log[j].produced = min_features
         /\ EstimateFailedAt(match_log[j].frame_idx)
    /\ \E j \in 1..Len(match_log) :
         /\ match_log[j].produced = min_features - 1

\* C7: after frame i is processed the retained gray image, keypoints and
\* descriptors are those of frame i, whatever branch was taken; so the
\* transition at frame i reads the features of frames i-1 and i only.
C7_RetainedIsLastFrame ==
    /\ idx >= 1 =>
         /\ prev_gray = cvtColor(frames[idx])
         /\ prev_keypoints = FeaturesOf(idx - 1).keypoints
         /\ prev_descriptors = FeaturesOf(idx - 1).descriptors
    /\ \A k \in 1..Len(pair_log) :
         /\ pair_log[k].prev_keypoints = FeaturesOf(k - 1).keypoints
         /\ pair_log[k].prev_descriptors = FeaturesOf(k - 1).descriptors
         /\ pair_log[k].keypoints = FeaturesOf(k).keypoints
         /\ pair_log[k].descriptors = FeaturesOf(k).descriptors

C7_Witness ==
    /\ idx = 3
    /\ frames[1] # frames[2]
    /\ transformation_data[1].homography = None
    /\ transformation_data[2].homography # None

\* C8: feature extraction is invoked exactly once for each frame, N calls
\* for N frames.
C8_OneExtractionPerFrame ==
    Returned =>
        /\ Len(extract_log) = Len(frames)
        /\ \A i \in 0..(Len(frames) - 1) :
             Cardinality({j \in 1..Len(extract_log) : extract_log[j] = i}) = 1

\* the possible normalized components of the model's matrices
Components ==
    [h \in Homographies |->
        {[nt |-> normalized_translation(translation),
          nr |-> normalized_rotation(rotation),
          ns |-> normalized_scale(scale)] :
            translation \in translation_magnitude(h),
            rotation \in rotation_angle(h),
            scale \in scale_factor(h)}]
AllComponents == UNION {Components[h] : h \in Homographies}

FLe(x, y) == ~FLt(y, x)

\* ((0.6*nt*100 + 0.25*nr*100 + 0.15*ns*100) * m1) * m2 in the order of the
\* source, every operation rounded to a float
RoundedScores ==
    [c \in AllComponents |-> [sparse \in BOOLEAN |-> [low \in BOOLEAN |->
        LET base == FAdd(FAdd(FMul(FMul(FromRatio(6, 10), c.nt), FromInt(100)),
                              FMul(FMul(FromRatio(25, 100), c.nr), FromInt(100))),
                         FMul(FMul(FromRatio(15, 100), c.ns), FromInt(100)))
        IN  FMul(FMul(base, IF sparse THEN FromRatio(110, 100) ELSE One),
                 IF low THEN FromRatio(105, 100) ELSE One)]]]

\* the least exponent of the floats in S, and at most most
LeastExponent(S, most) ==
    CHOOSE e \in {x.e : x \in S} \cup {most} : e <= most /\ \A x \in S : e <= x.e

\* the float x >= 0 as a multiple of 2^unit, for unit <= x.e
Multiple(x, unit) == IF x.m = <<>> THEN <<>> ELSE BShl(x.m, x.e - unit)

\* |a - b|
BDistance(a, b) == IF BCmp(a, b) >= 0 THEN BSub(a, b) ELSE BSub(b, a)

\* The real number base * m1 * m2, base = 60*nt + 25*nr + 15*ns, m1 = 11/10
\* or 1 and m2 = 21/20 or 1, against the float of RoundedScores, without
\* rounding: both are taken times the denominator of m1 * m2 and as
\* multiples of 2^unit.  exact: they are equal; rounded: they differ by at
\* most 2^-40.
Agreement ==
    [c \in AllComponents |-> [sparse \in BOOLEAN |-> [low \in BOOLEAN |->
        LET unit == LeastExponent({c.nt, c.nr, c.ns, RoundedScores[c][sparse][low]}, -40)
            numerator == (IF sparse THEN 11 ELSE 1) * (IF low THEN 21 ELSE 1)
            denominator == (IF sparse THEN 10 ELSE 1) * (IF low THEN 20 ELSE 1)
            base == BAdd(BAdd(BMulSmall(Multiple(c.nt, unit), 60),
                              BMulSmall(Multiple(c.nr, unit), 25)),
                         BMulSmall(Multiple(c.ns, unit), 15))
            distance == BDistance(BMulSmall(base, numerator),
                                  BMulSmall(Multiple(RoundedScores[c][sparse][low], unit),
                                            denominator))
        IN  [exact |-> distance = <<>>,
             rounded |-> BCmp(distance, BMulSmall(BShl(<<1>>, -40 - unit), denominator)) <= 0]]]]

\* 115.5 = 1848 * 2^42 * 2^-46
ClaimedMaximum == [neg |-> FALSE, m |-> <<0, 0, 0, 1848>>, e |-> -46]
\* the next float above it, 115.50000000000001, which is 100.0 * 1.1 * 1.05
\* in Python
RoundedMaximum == [neg |-> FALSE, m |-> <<1, 0, 0, 1848>>, e |-> -46]

\* every record with a homography has the score of RoundedScores for
\* components its matrix can have and for its two conditions, which agrees
\* with base * m1 * m2 as agreement says, is within [0, maximum] and is
\* above 100.0 only with a correction; without a homography the analyzer
\* gives 100.0
ScoreClaim(agreement, maximum) ==
    /\ \A k \in Transitions :
         LET r == transformation_data[k]
             H == r.homography
             sparse == r.matches < 15
             low == 10 * r.inliers < 4 * r.matches
         IN  H # None =>
               /\ \A c \in Components[H] : \A part \in {c.nt, c.nr, c.ns} :
                    FLe(Zero, part) /\ FLe(part, One)
               /\ \E c \in Components[H] :
                    /\ r.score = RoundedScores[c][sparse][low]
                    /\ Agreement[c][sparse][low][agreement]
               /\ FLe(Zero, r.score)
               /\ FLe(r.score, maximum)
               /\ FLt(Hundred, r.score) => (sparse \/ low)
    /\ \A n \in 1..MaxKeypoints :
         analyze_transformation(None, n, InlierEstimate(n, Mask(n, n))) = {Hundred}

\* C9 as stated: with a homography the recorded score equals base * m1 * m2,
\* where base = 60*nt + 25*nr + 15*ns with each component in [0, 1],
\* m1 = 1.10 when the recorded matches are fewer than 15 and m2 = 1.05 when
\* recorded inliers / recorded matches < 0.4; the score is within [0, 115.5]
\* and above 100 only with a correction; without a homography the analyzer
\* gives 100.0.
C9_AsClaimed == ScoreClaim("exact", ClaimedMaximum)

\* C9, amended: the same with the recorded score the float that the source's
\* sums and products give in binary64, equal to base * m1 * m2 up to their
\* rounding (within 2^-40), and with the upper end of the range the float
\* 100.0 * 1.1 * 1.05 = 115.50000000000001, the next float above 115.5.
C9_ScoreFormula == ScoreClaim("rounded", RoundedMaximum)

\* both corrections applied to a saturated score: the maximum is reached
C9_Witness ==
    \E k \in Transitions :
        /\ transformation_data[k].homography # None
        /\ transformation_data[k].matches < 15
        /\ 10 * transformation_data[k].inliers < 4 * transformation_data[k].matches
        /\ transformation_data[k].score = RoundedMaximum
        /\ FLt(ClaimedMaximum, transformation_data[k].score)

\* C10: in the chart every flagged frame f is marked at x = f with y the
\* score of the transition ending at frame f.
C10_MarkerAtOwnScore ==
    pc = "charted" =>
        /\ chart.highlight_x = movement_frames
        /\ \A j \in 1..Len(chart.highlight_x) :
             chart.highlight_y[j] = movement_scores[chart.highlight_x[j]]

====
